---------------------------- MODULE Spec2Model ----------------------------
(***************************************************************************)
(* SensorFlow: the analytical functions of src/src/anomaly_insights.py and *)
(* src/src/data_quality.py, the configuration loader of src/src/utils.py   *)
(* and the preprocessing of src/etl_pipeline.py as operators over small    *)
(* tabular datasets, and one specification per function group whose Init   *)
(* draws the inputs and whose actions apply the function.                  *)
(*                                                                         *)
(* Numbers.  Python floats are modelled as exact rationals (normalised     *)
(* fractions) extended with +infinity and NaN; rounding of IEEE doubles is *)
(* not modelled.  Timestamps are integer seconds.                          *)
(* A DataFrame is a record [columns, rows]; a raised exception is recorded *)
(* in ret.raised with the exception's name in ret.kind.                    *)
(***************************************************************************)
EXTENDS Integers, Sequences, FiniteSets, TLC

VARIABLES
    df,         \* the dataset handed to the function under analysis
    events_df,  \* the event table handed to the calculators
    params,     \* the scalar arguments of the call
    config,     \* the module-level config of anomaly_insights
    pipeline,   \* the ReliabilityPipeline instance: its scaler and its pca
    ret,        \* what the call returned or raised
    pc          \* "ready" before the call, "done" after it ("import" before the
                \* module is loaded, "fitted" and "rerun" around repeated calls)

vars == <<df, events_df, params, config, pipeline, ret, pc>>

---------------------------------------------------------------------------
(* Bounds of the input space *)

MaxRows == 4            \* rows of a dataset for event extraction
MaxEvents == 3          \* rows of an event table handed to the calculators

Gaps == {0, 30}                 \* seconds between consecutive rows
Scores == {1, 2}                \* anomaly_score values
Statuses == {"NORMAL", "BROKEN", "RECOVERING"}

---------------------------------------------------------------------------
(* Float arithmetic: exact rationals plus inf and NaN *)

Abs(i) == IF i < 0 THEN -i ELSE i

RECURSIVE GCD(_, _)
GCD(a, b) == IF b = 0 THEN a ELSE GCD(b, a % b)

\* The float n/d (d > 0), normalised so that equal numbers are equal records.
Fin(n, d) ==
    LET g == GCD(Abs(n), d)
    IN  [k |-> "fin", n |-> n \div g, d |-> d \div g]

Inf == [k |-> "inf", n |-> 1, d |-> 0]
NaN == [k |-> "nan", n |-> 0, d |-> 0]

IsFin(x) == x.k = "fin"
IsNaN(x) == x.k = "nan"

FAdd(x, y) ==
    IF IsNaN(x) \/ IsNaN(y) THEN NaN
    ELSE IF x.k = "inf" \/ y.k = "inf" THEN Inf
    ELSE Fin(x.n * y.d + y.n * x.d, x.d * y.d)

FNeg(x) == IF IsFin(x) THEN Fin(-x.n, x.d) ELSE x

FSub(x, y) == FAdd(x, FNeg(y))

FMul(x, y) ==
    IF IsNaN(x) \/ IsNaN(y) THEN NaN
    ELSE IF x.k = "inf" \/ y.k = "inf" THEN Inf
    ELSE Fin(x.n * y.n, x.d * y.d)

\* x / y for a finite non-zero y (Python raises ZeroDivisionError on a zero
\* float divisor; no call of the model divides by zero).
FDiv(x, y) ==
    IF IsNaN(x) \/ IsNaN(y) THEN NaN
    ELSE IF x.k = "inf" THEN Inf
    ELSE IF y.n > 0 THEN Fin(x.n * y.d, x.d * y.n)
    ELSE Fin(-(x.n * y.d), x.d * (-y.n))

FAbs(x) == IF IsFin(x) THEN Fin(Abs(x.n), x.d) ELSE x

\* Comparisons with NaN are false, as in IEEE arithmetic.
FLt(x, y) ==
    /\ IsFin(x) /\ IsFin(y)
    /\ x.n * y.d < y.n * x.d

FEq(x, y) == IsFin(x) /\ IsFin(y) /\ x = y

Int2F(i) == Fin(i, 1)

---------------------------------------------------------------------------
(* DataFrame helpers *)

EmptyFrame == [columns |-> {}, rows |-> <<>>]

\* DataFrame.empty: any axis of length 0
IsEmpty(frame) == frame.columns = {} \/ frame.rows = <<>>

SetMax(S) == CHOOSE x \in S : \A y \in S : y <= x
SetMin(S) == CHOOSE x \in S : \A y \in S : x <= y

RECURSIVE SeqSum(_)
SeqSum(s) == IF s = <<>> THEN Fin(0, 1) ELSE FAdd(s[1], SeqSum(Tail(s)))

---------------------------------------------------------------------------
(* get_anomaly_events *)

FailureStatuses == {"BROKEN", "RECOVERING"}

\* A variant that compares the failure flag instead of the status, so that a
\* BROKEN run running into a RECOVERING run is one group.
status_change_by_flag(rows, i) ==
    \/ i = 1
    \/ (rows[i - 1].machine_status \in FailureStatuses)
          # (rows[i].machine_status \in FailureStatuses)

\* temp_df['machine_status'].shift() != temp_df['machine_status']
status_change(rows, i) ==
    i = 1 \/ rows[i - 1].machine_status # rows[i].machine_status

\* temp_df['status_change'].cumsum(): the group key of row i
group_key(rows, i) == Cardinality({j \in 1..i : status_change(rows, j)})

\* the row positions of group g
group_rows(rows, g) == {i \in 1..Len(rows) : group_key(rows, i) = g}

\* A variant that takes the peak score of the whole dataset, not of the group.
event_of_group_global_max(frame, g) ==
    LET idx == group_rows(frame.rows, g)
        ts == {frame.rows[i].timestamp : i \in idx}
    IN  [start_time |-> SetMin(ts),
         end_time |-> SetMax(ts),
         duration_mins |-> Fin(SetMax(ts) - SetMin(ts), 60),
         status |-> frame.rows[SetMin(idx)].machine_status,
         max_anomaly_score |->
            IF "anomaly_score" \in frame.columns
            THEN SetMax({frame.rows[i].anomaly_score : i \in DOMAIN frame.rows})
            ELSE 0]

\* the dict appended for one group (lines 75-81)
event_of_group(frame, g) ==
    LET idx == group_rows(frame.rows, g)
        ts == {frame.rows[i].timestamp : i \in idx}
    IN  [start_time |-> SetMin(ts),
         end_time |-> SetMax(ts),
         duration_mins |-> Fin(SetMax(ts) - SetMin(ts), 60),
         status |-> frame.rows[SetMin(idx)].machine_status,
         max_anomaly_score |->
            IF "anomaly_score" \in frame.columns
            THEN SetMax({frame.rows[i].anomaly_score : i \in idx})
            ELSE 0]

\* the loop over state_groups, in ascending group key order
RECURSIVE events_from(_, _, _)
events_from(frame, g, last) ==
    IF g > last THEN <<>>
    ELSE LET first == SetMin(group_rows(frame.rows, g))
             rest == events_from(frame, g + 1, last)
         IN  IF frame.rows[first].machine_status \in FailureStatuses
             THEN <<event_of_group(frame, g)>> \o rest
             ELSE rest

collected_events(frame) ==
    events_from(frame, 1, group_key(frame.rows, Len(frame.rows)))

\* A variant that sorts oldest first.
sorted_ascending(evs) ==
    LET n == Len(evs)
        perms == {p \in [1..n -> 1..n] :
                    /\ \A i, j \in 1..n : i # j => p[i] # p[j]
                    /\ \A i \in 1..n : i < n =>
                          evs[p[i]].start_time <= evs[p[i + 1]].start_time}
    IN  {[i \in 1..n |-> evs[p[i]]] : p \in perms}

\* sort_values('start_time', ascending=False): the default sort is not
\* stable, so rows with equal start_time may come out in any order.
sorted_descending(evs) ==
    LET n == Len(evs)
        perms == {p \in [1..n -> 1..n] :
                    /\ \A i, j \in 1..n : i # j => p[i] # p[j]
                    /\ \A i \in 1..n : i < n =>
                          evs[p[i]].start_time >= evs[p[i + 1]].start_time}
    IN  {[i \in 1..n |-> evs[p[i]]] : p \in perms}

EventColumns ==
    {"start_time", "end_time", "duration_mins", "status", "max_anomaly_score"}

\* The possible outcomes of get_anomaly_events(df).
get_anomaly_events(frame) ==
    IF IsEmpty(frame)
    THEN {[fn |-> "get_anomaly_events", raised |-> FALSE, kind |-> "DataFrame",
           value |-> EmptyFrame]}
    ELSE LET evs == collected_events(frame)
         IN  IF evs = <<>>
             \* pd.DataFrame([]) has no column 'start_time': sort_values raises
             THEN {[fn |-> "get_anomaly_events", raised |-> TRUE,
                    kind |-> "KeyError", value |-> EmptyFrame]}
             ELSE {[fn |-> "get_anomaly_events", raised |-> FALSE,
                    kind |-> "DataFrame",
                    value |-> [columns |-> EventColumns, rows |-> s]] :
                   s \in sorted_descending(evs)}

---------------------------------------------------------------------------
(* calculate_reliability_metrics and calculate_financial_risk *)

Metrics(mtbf, mttr) ==
    [fn |-> "calculate_reliability_metrics", raised |-> FALSE, kind |-> "dict",
     value |-> [MTBF |-> mtbf, MTTR |-> mttr]]

\* ['duration_mins'].sum() over the rows of an event table
duration_sum(rows) == SeqSum([i \in DOMAIN rows |-> rows[i].duration_mins])

is_failure(e) == e.status \in {"BROKEN", "RECOVERING"}

\* A variant that skips the status filter and counts every event.
calculate_reliability_metrics_unfiltered(events, total_duration_hours) ==
    IF IsEmpty(events) THEN Metrics(Inf, Fin(0, 1))
    ELSE LET failures == events.rows
             num_failures == Len(failures)
             total_downtime_hours == FDiv(duration_sum(failures), Fin(60, 1))
             total_uptime_hours == FSub(total_duration_hours, total_downtime_hours)
         IN  Metrics(FDiv(total_uptime_hours, Int2F(num_failures)),
                     FMul(FDiv(total_downtime_hours, Int2F(num_failures)),
                          Fin(60, 1)))

\* A variant whose zero-failure branch reports the fallback 0 of line 48.
calculate_reliability_metrics_zero(events, total_duration_hours) ==
    LET failures == SelectSeq(events.rows, is_failure)
        num_failures == Len(failures)
        total_downtime_hours == FDiv(duration_sum(failures), Fin(60, 1))
        total_uptime_hours == FSub(total_duration_hours, total_downtime_hours)
    IN  IF num_failures = 0 THEN Metrics(Fin(0, 1), Fin(0, 1))
        ELSE Metrics(FDiv(total_uptime_hours, Int2F(num_failures)),
                     FMul(FDiv(total_downtime_hours, Int2F(num_failures)),
                          Fin(60, 1)))

calculate_reliability_metrics(events, total_duration_hours) ==
    IF IsEmpty(events) THEN Metrics(Inf, Fin(0, 1))
    ELSE LET failures == SelectSeq(events.rows, is_failure)
             num_failures == Len(failures)
             total_downtime_hours == FDiv(duration_sum(failures), Fin(60, 1))
             total_uptime_hours == FSub(total_duration_hours, total_downtime_hours)
         IN  IF num_failures = 0 THEN Metrics(Inf, Fin(0, 1))
             ELSE Metrics(FDiv(total_uptime_hours, Int2F(num_failures)),
                          FMul(FDiv(total_downtime_hours, Int2F(num_failures)),
                               Fin(60, 1)))

Risk(amount) ==
    [fn |-> "calculate_financial_risk", raised |-> FALSE, kind |-> "number",
     value |-> amount]

\* A variant that follows the comment of line 142 and sums failure events only.
calculate_financial_risk_failures_only(events, cost_per_minute) ==
    IF IsEmpty(events) THEN Risk(Fin(0, 1))
    ELSE Risk(FMul(duration_sum(SelectSeq(events.rows, is_failure)),
                   cost_per_minute))

calculate_financial_risk(events, cost_per_minute) ==
    IF IsEmpty(events) THEN Risk(Fin(0, 1))
    ELSE Risk(FMul(duration_sum(events.rows), cost_per_minute))

---------------------------------------------------------------------------
(* Column statistics of pandas: NaN cells are skipped.  The readings of the *)
(* model are whole numbers (cell.d = 1), so the sums are integer sums.      *)

\* the non-missing cells of column c over the rows at the positions in idx
present(rows, idx, c) == {i \in idx : ~IsNaN(rows[i][c])}

\* the sum of column c over the rows at the positions in idx, from row i on
RECURSIVE CellSum(_, _, _, _)
CellSum(rows, idx, c, i) ==
    IF i > Len(rows) THEN 0
    ELSE IF i \in idx THEN rows[i][c].n + CellSum(rows, idx, c, i + 1)
    ELSE CellSum(rows, idx, c, i + 1)

\* Series.mean(): NaN when no cell is present
mean(rows, idx, c) ==
    LET p == present(rows, idx, c)
    IN  IF p = {} THEN NaN
        ELSE Fin(CellSum(rows, p, c, 1), Cardinality(p))

\* the sum of the squared deviations (x - total/count)^2 over the rows in idx,
\* from row i on, as a multiple of 1/count^2
RECURSIVE SquareSum(_, _, _, _, _, _)
SquareSum(rows, idx, c, total, count, i) ==
    IF i > Len(rows) THEN 0
    ELSE IF i \in idx
    THEN (count * rows[i][c].n - total) * (count * rows[i][c].n - total)
            + SquareSum(rows, idx, c, total, count, i + 1)
    ELSE SquareSum(rows, idx, c, total, count, i + 1)

\* Series.std() is the sample standard deviation (ddof = 1), the square root
\* of this variance: NaN with fewer than two present cells.  The model keeps
\* the variance; std == 0 exactly when the variance is 0.
variance(rows, idx, c) ==
    LET p == present(rows, idx, c)
        count == Cardinality(p)
    IN  IF count < 2 THEN NaN
        ELSE Fin(SquareSum(rows, p, c, CellSum(rows, p, c, 1), count, 1),
                 count * count * (count - 1))

std_is_zero(rows, idx, c) == variance(rows, idx, c) = Fin(0, 1)

---------------------------------------------------------------------------
(* analyze_root_cause *)

SensorNames == <<"sensor_00", "sensor_01">>

\* [c for c in df.columns if 'sensor' in c], in column order
sensor_cols(frame) == SelectSeq(SensorNames, LAMBDA c : c \in frame.columns)

\* The deviation score m / sigma is kept as the rational m * |m| / sigma^2,
\* which has the sign and the order of the score.
score_of(m, var) == FDiv(FMul(m, FAbs(m)), var)

\* abs(mu_event - mu_baseline) / sigma_baseline
deviation_score(mu_event, mu_baseline, var_baseline) ==
    score_of(FAbs(FSub(mu_event, mu_baseline)), var_baseline)

\* the loop of lines 108-129 from sensor k on; the bare except of line 128
\* has nothing to catch on numeric columns
RECURSIVE contributions_from(_, _, _, _)
contributions_from(frame, baseline, window, k) ==
    LET cols == sensor_cols(frame)
    IN  IF k > Len(cols) THEN <<>>
        ELSE LET sensor == cols[k]
                 rest == contributions_from(frame, baseline, window, k + 1)
                 mu_baseline == mean(frame.rows, baseline, sensor)
                 mu_event == mean(frame.rows, window, sensor)
             IN  IF std_is_zero(frame.rows, baseline, sensor) THEN rest
                 ELSE <<[sensor |-> sensor,
                         deviation_score |->
                            deviation_score(mu_event, mu_baseline,
                                variance(frame.rows, baseline, sensor)),
                         event_mean |-> mu_event,
                         baseline_mean |-> mu_baseline]>> \o rest

\* sort_values('deviation_score', ascending=False): NaN scores last, equal
\* scores in any order (the default sort is not stable)
ranked(entries) ==
    LET n == Len(entries)
        perms == {p \in [1..n -> 1..n] :
                    /\ \A i, j \in 1..n : i # j => p[i] # p[j]
                    /\ \A i \in 1..n : i < n =>
                          LET x == entries[p[i]].deviation_score
                              y == entries[p[i + 1]].deviation_score
                          IN  IF IsNaN(x) THEN IsNaN(y)
                              ELSE IsNaN(y) \/ ~FLt(x, y)}
    IN  {[i \in 1..n |-> entries[p[i]]] : p \in perms}

\* DataFrame.head(n) for n >= 0
head(s, n) == SubSeq(s, 1, IF n < Len(s) THEN n ELSE Len(s))

RcaColumns == {"sensor", "deviation_score", "event_mean", "baseline_mean"}

EmptyList ==
    [fn |-> "analyze_root_cause", raised |-> FALSE, kind |-> "list",
     value |-> [columns |-> {}, rows |-> <<>>]]

RcaKeyError ==
    [fn |-> "analyze_root_cause", raised |-> TRUE, kind |-> "KeyError",
     value |-> [columns |-> {}, rows |-> <<>>]]

\* lines 105-133: score every sensor, rank, keep the first top_n
rank_sensors(frame, baseline, window, top_n) ==
    LET contributions == contributions_from(frame, baseline, window, 1)
    IN  IF contributions = <<>>
        \* pd.DataFrame([]) has no column 'deviation_score'
        THEN {RcaKeyError}
        ELSE {[fn |-> "analyze_root_cause", raised |-> FALSE,
               kind |-> "DataFrame",
               value |-> [columns |-> RcaColumns, rows |-> head(s, top_n)]] :
              s \in ranked(contributions)}

baseline_rows(frame) ==
    {i \in DOMAIN frame.rows : frame.rows[i].machine_status = "NORMAL"}

window_rows(frame, event_row) ==
    {i \in DOMAIN frame.rows :
        /\ frame.rows[i].timestamp >= event_row.start_time
        /\ frame.rows[i].timestamp <= event_row.end_time}

\* A variant that reads the event context before the emptiness checks.
analyze_root_cause_context_first(frame, event_row, top_n) ==
    IF "start_time" \notin DOMAIN event_row THEN {RcaKeyError}
    ELSE IF IsEmpty(frame) THEN {EmptyList}
    ELSE IF baseline_rows(frame) = {} THEN {EmptyList}
    ELSE IF window_rows(frame, event_row) = {} THEN {EmptyList}
    ELSE rank_sensors(frame, baseline_rows(frame),
                      window_rows(frame, event_row), top_n)

\* The possible outcomes of analyze_root_cause(df, event_row, top_n).
analyze_root_cause(frame, event_row, top_n) ==
    IF IsEmpty(frame) THEN {EmptyList}
    ELSE IF baseline_rows(frame) = {} THEN {EmptyList}
    \* event_row['start_time'] of an empty dict
    ELSE IF "start_time" \notin DOMAIN event_row THEN {RcaKeyError}
    ELSE IF window_rows(frame, event_row) = {} THEN {EmptyList}
    ELSE rank_sensors(frame, baseline_rows(frame),
                      window_rows(frame, event_row), top_n)

---------------------------------------------------------------------------
(* check_sensor_health *)

\* A variant that evaluates the whole dataset, whatever the window.
recent_rows_whole(frame, lookback_window) == DOMAIN frame.rows

\* df.tail(lookback_window) if len(df) > lookback_window else df: the row
\* positions of recent_df
recent_rows(frame, lookback_window) ==
    IF Len(frame.rows) > lookback_window
    THEN (Len(frame.rows) - lookback_window + 1)..Len(frame.rows)
    ELSE DOMAIN frame.rows

\* recent_df[sensor].isna().mean() > 0.1
high_missing_rate(rows, idx, c) ==
    FLt(Fin(1, 10),
        Fin(Cardinality(idx) - Cardinality(present(rows, idx, c)),
            Cardinality(idx)))

HealthEntry(rows, idx, c, status, details) ==
    [sensor |-> c, status |-> status, details |-> details,
     current_value |-> rows[SetMax(idx)][c]]

\* A variant that tests the missing rate before the variance.
sensor_report_missing_first(rows, idx, c) ==
    IF high_missing_rate(rows, idx, c)
    THEN HealthEntry(rows, idx, c, "WARNING", "High Missing Data Rate")
    ELSE IF std_is_zero(rows, idx, c)
    THEN HealthEntry(rows, idx, c, "CRITICAL", "Flatline (Zero Variance)")
    ELSE HealthEntry(rows, idx, c, "HEALTHY", "Normal operation")

\* the body of the loop of lines 29-48 for one sensor
sensor_report(rows, idx, c) ==
    IF std_is_zero(rows, idx, c)
    THEN HealthEntry(rows, idx, c, "CRITICAL", "Flatline (Zero Variance)")
    ELSE IF high_missing_rate(rows, idx, c)
    THEN HealthEntry(rows, idx, c, "WARNING", "High Missing Data Rate")
    ELSE HealthEntry(rows, idx, c, "HEALTHY", "Normal operation")

HealthColumns == {"sensor", "status", "details", "current_value"}

check_sensor_health(frame, lookback_window) ==
    IF IsEmpty(frame)
    THEN [fn |-> "check_sensor_health", raised |-> FALSE, kind |-> "DataFrame",
          value |-> EmptyFrame]
    ELSE LET cols == sensor_cols(frame)
             recent == recent_rows(frame, lookback_window)
         IN  [fn |-> "check_sensor_health", raised |-> FALSE,
              kind |-> "DataFrame",
              value |-> [columns |-> IF cols = <<>> THEN {} ELSE HealthColumns,
                         rows |-> [k \in DOMAIN cols |->
                                     sensor_report(frame.rows, recent, cols[k])]]]

---------------------------------------------------------------------------
(* utils.load_config and the lookups of its consumers.  A dict is a function *)
(* from the keys it holds; d[k] raises KeyError when k is not among them.    *)

Dict == <<>>            \* the empty dict {}

\* config.toml as the loader finds it: absent, present but failing to load,
\* or present with the tables it holds
ConfigFile(exists, loads, content) ==
    [exists |-> exists, loads |-> loads, content |-> content]

MissingFile == ConfigFile(FALSE, FALSE, Dict)
UnreadableFile == ConfigFile(TRUE, FALSE, Dict)

\* the fallback defaults of lines 16-19
FallbackConfig ==
    [business |-> [cost_per_minute |-> 500],
     etl |-> [anomaly_threshold_std |-> Fin(2, 1)]]

load_config(file) ==
    IF file.exists
    THEN IF file.loads THEN file.content    \* toml.load(CONFIG_PATH)
         ELSE Dict                          \* except Exception: return {}
    ELSE FallbackConfig

\* cfg[section][key] does not raise
has_key(cfg, section, key) ==
    section \in DOMAIN cfg /\ key \in DOMAIN cfg[section]

PlotResult(raised, kind, value) ==
    [fn |-> "plot_health_timeline", raised |-> raised, kind |-> kind,
     value |-> value]

\* the figure is reduced to the two properties taken from the configuration
plot_health_timeline(frame, cfg) ==
    IF "anomaly_score" \notin frame.columns
    THEN PlotResult(FALSE, "None", Dict)
    ELSE IF ~has_key(cfg, "ui", "theme_color")
    THEN PlotResult(TRUE, "KeyError", Dict)
    ELSE IF ~has_key(cfg, "ui", "chart_height")
    THEN PlotResult(TRUE, "KeyError", Dict)
    ELSE PlotResult(FALSE, "Figure",
                    [color |-> cfg.ui.theme_color, height |-> cfg.ui.chart_height])

RenderResult(raised, kind, value) ==
    [fn |-> "render_anomaly_insights", raised |-> raised, kind |-> kind,
     value |-> value]

\* A variant that measures the span in days.
timestamp_span_days(frame) ==
    LET ts == {frame.rows[i].timestamp : i \in DOMAIN frame.rows}
    IN  Fin(SetMax(ts) - SetMin(ts), 86400)

\* df['timestamp'].max() - df['timestamp'].min(), in hours
timestamp_span_hours(frame) ==
    LET ts == {frame.rows[i].timestamp : i \in DOMAIN frame.rows}
    IN  Fin(SetMax(ts) - SetMin(ts), 3600)

\* render_anomaly_insights up to the values of its KPI row (lines 190-206),
\* with the cost slider left at its initial position default_cost; the
\* sections after the KPI row display these values and the results of
\* check_sensor_health, plot_health_timeline and analyze_root_cause.
render_anomaly_insights(frame, cfg) ==
    IF IsEmpty(frame) THEN {RenderResult(FALSE, "None", Dict)}
    ELSE IF ~has_key(cfg, "business", "cost_per_minute")
    THEN {RenderResult(TRUE, "KeyError", Dict)}
    ELSE IF ~has_key(cfg, "etl", "anomaly_threshold_std")
    THEN {RenderResult(TRUE, "KeyError", Dict)}
    ELSE LET default_cost == cfg.business.cost_per_minute
             cost_per_min == default_cost
             threshold == cfg.etl.anomaly_threshold_std
             total_duration_hours == timestamp_span_hours(frame)
         IN  {IF ev.raised THEN RenderResult(TRUE, ev.kind, Dict)
              ELSE RenderResult(FALSE, "KPI",
                     [default_cost |-> default_cost,
                      threshold |-> threshold,
                      events_df |-> ev.value,
                      total_duration_hours |-> total_duration_hours,
                      reliability |->
                         calculate_reliability_metrics(
                            ev.value, total_duration_hours).value,
                      total_risk |->
                         calculate_financial_risk(
                            ev.value, Int2F(cost_per_min)).value]) :
              ev \in get_anomaly_events(frame)}

---------------------------------------------------------------------------
(* etl_pipeline.ReliabilityPipeline.  StandardScaler and PCA are estimators  *)
(* of a library: a fitted estimator is represented by the batches of data    *)
(* its statistics were computed from, and transformed data by the estimator  *)
(* that transformed it together with the data it was given.                  *)

PipelineSensors == <<"sensor_00", "sensor_01", "sensor_02">>

Unfitted == [fitted |-> FALSE, features |-> <<>>, batches |-> <<>>]

\* __init__: self.scaler = StandardScaler(), self.pca = PCA(n_components=2)
ReliabilityPipeline == [scaler |-> Unfitted, pca |-> Unfitted]

\* Series.ffill: the last non-missing cell at or before row i
RECURSIVE ffill(_, _)
ffill(col, i) ==
    IF ~IsNaN(col[i]) THEN col[i]
    ELSE IF i = 1 THEN NaN ELSE ffill(col, i - 1)

\* Series.bfill: the first non-missing cell at or after row i
RECURSIVE bfill(_, _)
bfill(col, i) ==
    IF ~IsNaN(col[i]) THEN col[i]
    ELSE IF i = Len(col) THEN NaN ELSE bfill(col, i + 1)

\* A variant that fills backward before it fills forward.
fill_column_backward_first(col) ==
    LET backward == [i \in DOMAIN col |-> bfill(col, i)]
    IN  [i \in DOMAIN col |-> ffill(backward, i)]

\* df.ffill().bfill() on one column
fill_column(col) ==
    LET forward == [i \in DOMAIN col |-> ffill(col, i)]
    IN  [i \in DOMAIN col |-> bfill(forward, i)]

column_of(frame, c) == [i \in DOMAIN frame.rows |-> frame.rows[i][c]]

\* lines 48 and 51: fill every column, then drop the columns that still
\* hold no value (dropna(axis=1, how='all'))
gap_filled(frame) ==
    LET filled == [c \in frame.columns |-> fill_column(column_of(frame, c))]
        kept == {c \in frame.columns :
                    \E i \in DOMAIN frame.rows : ~IsNaN(filled[c][i])}
    IN  [columns |-> kept,
         rows |-> [i \in DOMAIN frame.rows |-> [c \in kept |-> filled[c][i]]]]

\* line 54: the columns whose name contains 'sensor', in column order
pipeline_sensor_cols(frame) ==
    SelectSeq(PipelineSensors, LAMBDA c : c \in frame.columns)

\* df[sensor_cols] as a matrix
sensor_matrix(frame, cols) ==
    [i \in DOMAIN frame.rows |-> [k \in DOMAIN cols |-> frame.rows[i][cols[k]]]]

\* A variant that updates the statistics with the new batch (partial_fit).
partial_fit(estimator, cols, X) ==
    [fitted |-> TRUE, features |-> cols, batches |-> Append(estimator.batches, X)]

\* fit of fit_transform: the statistics are computed from X alone
fit(estimator, cols, X) ==
    [fitted |-> TRUE, features |-> cols, batches |-> <<X>>]

\* transform of fit_transform
transform(estimator, X) == [by |-> estimator, data |-> X]

PreprocessRaised(who) ==
    [fn |-> "preprocess", raised |-> TRUE, kind |-> "ValueError", value |-> who]

\* the returned frame: the gap-filled columns, and PCA_1, PCA_2 and
\* anomaly_score as the projected matrix they are read and computed from
Preprocessed(filled, principal_components) ==
    [fn |-> "preprocess", raised |-> FALSE, kind |-> "DataFrame",
     value |-> [columns |-> filled.columns \cup {"PCA_1", "PCA_2", "anomaly_score"},
                rows |-> filled.rows,
                health |-> principal_components]]

\* The possible outcomes of preprocess(df) on the instance self: what is
\* returned or raised, and the instance afterwards.  The scaler rejects a
\* matrix without rows or columns, the projection onto 2 components a matrix
\* with fewer than 2 rows or columns; whether a scaler whose fit was rejected
\* keeps its earlier statistics is left open.
preprocess(self, frame) ==
    LET filled == gap_filled(frame)
        sensors == pipeline_sensor_cols(filled)
        X == sensor_matrix(filled, sensors)
        scaler == fit(self.scaler, sensors, X)
        x_scaled == transform(scaler, X)
        pca == fit(self.pca, <<"PCA_1", "PCA_2">>, x_scaled)
        principal_components == transform(pca, x_scaled)
    IN  IF Len(X) = 0 \/ Len(sensors) = 0
        THEN {[ret |-> PreprocessRaised("StandardScaler"),
               self |-> [self EXCEPT !.scaler = sc]] :
              sc \in {Unfitted, self.scaler}}
        ELSE IF Len(X) < 2 \/ Len(sensors) < 2
        THEN {[ret |-> PreprocessRaised("PCA"),
               self |-> [self EXCEPT !.scaler = scaler]]}
        ELSE {[ret |-> Preprocessed(filled, principal_components),
               self |-> [scaler |-> scaler, pca |-> pca]]}

---------------------------------------------------------------------------
(* Specification of the event extractor *)

NoParams == [unused |-> TRUE]
NoRet == [fn |-> "none", raised |-> FALSE, kind |-> "none", value |-> <<>>]

RowColumns == {"timestamp", "machine_status", "anomaly_score"}

\* rows sorted ascending by timestamp: the first row is at second 0 and each
\* next row follows after a gap drawn from Gaps
RECURSIVE Stamp(_, _)
Stamp(gaps, i) == IF i = 1 THEN 0 ELSE Stamp(gaps, i - 1) + gaps[i]

\* the dataset with n rows, gaps[i] seconds between rows i-1 and i
EventDataset(cols, n, gaps, st, sc) ==
    [columns |-> cols,
     rows |-> [i \in 1..n |->
                 [timestamp |-> Stamp(gaps, i),
                  machine_status |-> st[i],
                  anomaly_score |-> sc[i]]]]

InitEvents ==
    /\ \E n \in 0..MaxRows, cols \in {RowColumns, RowColumns \ {"anomaly_score"}} :
         \E gaps \in [2..n -> Gaps], st \in [1..n -> Statuses],
            sc \in [1..n -> IF "anomaly_score" \in cols THEN Scores ELSE {0}] :
            df = EventDataset(cols, n, gaps, st, sc)
    /\ events_df = EmptyFrame
    /\ params = NoParams
    /\ config = load_config(MissingFile)
    /\ pipeline = ReliabilityPipeline
    /\ ret = NoRet
    /\ pc = "ready"

GetAnomalyEvents ==
    /\ pc = "ready"
    /\ ret' \in get_anomaly_events(df)
    /\ pc' = "done"
    /\ UNCHANGED <<df, events_df, params, config, pipeline>>

NextEvents == GetAnomalyEvents

SpecEvents == InitEvents /\ [][NextEvents]_vars

---------------------------------------------------------------------------
(* Specification of the calculators over an event table *)

Durations == {Fin(0, 1), Fin(1, 2), Fin(60, 1)}     \* duration_mins values
Hours == {Fin(0, 1), Fin(3, 2), Fin(10, 1)}         \* total_duration_hours
Costs == {Fin(100, 1), Fin(500, 1)}                 \* cost_per_minute

CalcColumns == {"status", "duration_mins"}

InitCalculators ==
    /\ \E n \in 0..MaxEvents :
         \E st \in [1..n -> Statuses], du \in [1..n -> Durations],
            cols \in IF n = 0 THEN {{}, CalcColumns} ELSE {CalcColumns} :
            events_df = [columns |-> cols,
                         rows |-> [i \in 1..n |->
                                     [status |-> st[i],
                                      duration_mins |-> du[i]]]]
    /\ \E h \in Hours, c \in Costs :
         params = [total_duration_hours |-> h, cost_per_minute |-> c]
    /\ df = EmptyFrame
    /\ config = load_config(MissingFile)
    /\ pipeline = ReliabilityPipeline
    /\ ret = NoRet
    /\ pc = "ready"

CalculateReliabilityMetrics ==
    /\ pc = "ready"
    /\ ret' = calculate_reliability_metrics(events_df, params.total_duration_hours)
    /\ pc' = "done"
    /\ UNCHANGED <<df, events_df, params, config, pipeline>>

CalculateFinancialRisk ==
    /\ pc = "ready"
    /\ ret' = calculate_financial_risk(events_df, params.cost_per_minute)
    /\ pc' = "done"
    /\ UNCHANGED <<df, events_df, params, config, pipeline>>

NextCalculators == CalculateReliabilityMetrics \/ CalculateFinancialRisk

SpecCalculators == InitCalculators /\ [][NextCalculators]_vars

---------------------------------------------------------------------------
(* Specification of the root-cause analyzer *)

MaxRcaRows == 2         \* rows of a dataset for root-cause analysis

Readings == {Fin(0, 1), Fin(1, 1), Fin(2, 1)}       \* sensor readings
TopNs == {1, 3}                                     \* top_n (default 3)
RcaStatuses == {"NORMAL", "BROKEN"}

MetaColumns == {"timestamp", "machine_status"}
AllSensors == {"sensor_00", "sensor_01"}

\* row i is stamped at minute i - 1
RcaDataset(cols, n, st, s0, s1) ==
    [columns |-> cols,
     rows |-> [i \in 1..n |->
                 [timestamp |-> 60 * (i - 1),
                  machine_status |-> st[i],
                  sensor_00 |-> s0[i],
                  sensor_01 |-> s1[i]]]]

\* the event context: an empty dict, or a window between two row stamps (the
\* stamp after the last row included)
EventRows(n) ==
    {<<>>} \cup
    {[start_time |-> 60 * (a - 1), end_time |-> 60 * (b - 1)] :
        a \in 1..(n + 1), b \in 1..(n + 1)}

InitRootCause ==
    /\ \E n \in 0..MaxRcaRows, cols \in {MetaColumns \cup AllSensors, MetaColumns, {}} :
         /\ (cols = {}) <=> (n = 0)
         /\ \E st \in [1..n -> RcaStatuses],
               s0 \in [1..n -> IF "sensor_00" \in cols THEN Readings ELSE {NaN}],
               s1 \in [1..n -> IF "sensor_01" \in cols THEN Readings ELSE {NaN}] :
               df = RcaDataset(cols, n, st, s0, s1)
         /\ \E row \in EventRows(n), top_n \in TopNs :
               /\ "start_time" \in DOMAIN row => row.start_time <= row.end_time
               /\ params = [event_row |-> row, top_n |-> top_n]
    /\ events_df = EmptyFrame
    /\ config = load_config(MissingFile)
    /\ pipeline = ReliabilityPipeline
    /\ ret = NoRet
    /\ pc = "ready"

AnalyzeRootCause ==
    /\ pc = "ready"
    /\ ret' \in analyze_root_cause(df, params.event_row, params.top_n)
    /\ pc' = "done"
    /\ UNCHANGED <<df, events_df, params, config, pipeline>>

NextRootCause == AnalyzeRootCause

SpecRootCause == InitRootCause /\ [][NextRootCause]_vars

---------------------------------------------------------------------------
(* Specification of the data quality monitor *)

MaxHealthRows == 10     \* rows of a dataset checked with a window that covers it
ShortLookback == 3      \* a lookback_window shorter than the dataset
MaxOlderRows == 2       \* rows before the short window

HealthReadings == {Fin(10, 1), Fin(11, 1), NaN}     \* sensor_00 cells

\* sensor_00 is drawn freely; sensor_01 is the ramp 1, 2, 3, ... of the
\* repository's test frame
HealthDataset(n, s0) ==
    [columns |-> AllSensors,
     rows |-> [i \in 1..n |-> [sensor_00 |-> s0[i], sensor_01 |-> Fin(i, 1)]]]

\* either the window covers the whole dataset, or it is the short one and up
\* to MaxOlderRows rows precede it
InitHealth ==
    /\ \E w \in {ShortLookback, MaxHealthRows} :
         /\ params = [lookback_window |-> w]
         /\ \E n \in 0..(IF w = ShortLookback THEN ShortLookback + MaxOlderRows
                                              ELSE MaxHealthRows) :
               \E s0 \in [1..n -> HealthReadings] :
                  df = IF n = 0 THEN EmptyFrame ELSE HealthDataset(n, s0)
    /\ events_df = EmptyFrame
    /\ config = load_config(MissingFile)
    /\ pipeline = ReliabilityPipeline
    /\ ret = NoRet
    /\ pc = "ready"

CheckSensorHealth ==
    /\ pc = "ready"
    /\ ret' = check_sensor_health(df, params.lookback_window)
    /\ pc' = "done"
    /\ UNCHANGED <<df, events_df, params, config, pipeline>>

NextHealth == CheckSensorHealth

SpecHealth == InitHealth /\ [][NextHealth]_vars

---------------------------------------------------------------------------
(* Specification of the configuration: the module is imported, then one of *)
(* the consumers of config runs                                            *)

CostSettings == {500, 1000}                         \* cost_per_minute in the file
ThresholdSettings == {Fin(2, 1), Fin(3, 1)}         \* anomaly_threshold_std
UiTables ==
    {[theme_color |-> "#00CC96"],
     [theme_color |-> "#00CC96", chart_height |-> 400]}

\* a table that may be absent from the file
Optional(name, tables) == {Dict} \cup {name :> t : t \in tables}

ConfigContents ==
    {b @@ e @@ u :
        b \in Optional("business",
                       {Dict} \cup {[cost_per_minute |-> c] : c \in CostSettings}),
        e \in Optional("etl",
                       {[anomaly_threshold_std |-> t] : t \in ThresholdSettings}),
        u \in Optional("ui", UiTables)}

ConfigFiles ==
    {MissingFile, UnreadableFile}
    \cup {ConfigFile(TRUE, TRUE, c) : c \in ConfigContents}

\* a one-row dataset holding a failure, with or without an anomaly_score
ConfigDatasets ==
    {EventDataset(cols, 1, <<>>, <<"BROKEN">>, <<1>>) :
        cols \in {RowColumns, RowColumns \ {"anomaly_score"}}}

InitConfig ==
    /\ \E file \in ConfigFiles : params = [config_file |-> file]
    /\ df \in ConfigDatasets
    /\ events_df = EmptyFrame
    /\ config = Dict
    /\ pipeline = ReliabilityPipeline
    /\ ret = NoRet
    /\ pc = "import"

\* line 11 of anomaly_insights.py, run when the module is imported
LoadConfig ==
    /\ pc = "import"
    /\ config' = load_config(params.config_file)
    /\ pc' = "ready"
    /\ UNCHANGED <<df, events_df, params, pipeline, ret>>

PlotHealthTimeline ==
    /\ pc = "ready"
    /\ ret' = plot_health_timeline(df, config)
    /\ pc' = "done"
    /\ UNCHANGED <<df, events_df, params, config, pipeline>>

RenderAnomalyInsights ==
    /\ pc = "ready"
    /\ ret' \in render_anomaly_insights(df, config)
    /\ pc' = "done"
    /\ UNCHANGED <<df, events_df, params, config, pipeline>>

NextConfig == LoadConfig \/ PlotHealthTimeline \/ RenderAnomalyInsights

SpecConfig == InitConfig /\ [][NextConfig]_vars

---------------------------------------------------------------------------
(* Specification of the ETL pipeline: one instance preprocesses an earlier *)
(* dataset, then the dataset df, then df once more                         *)

MaxPipelineRows == 3    \* rows of a dataset handed to preprocess
EarlierRows == 2        \* rows of the dataset preprocessed before

PipelineReadings == {Fin(1, 1), Fin(2, 1), NaN}     \* sensor_00 cells

PipelineColumns == {"timestamp", "sensor_00", "sensor_01", "sensor_02"}

\* sensor_00 is drawn freely; sensor_01 is dead, or a ramp whose first cell
\* is missing; sensor_02 is a ramp
PipelineDataset(cols, n, s0, dead) ==
    [columns |-> cols,
     rows |-> [i \in 1..n |->
                 [c \in cols |->
                    CASE c = "timestamp" -> Int2F(60 * (i - 1))
                      [] c = "sensor_00" -> s0[i]
                      [] c = "sensor_01" -> IF dead \/ i = 1 THEN NaN ELSE Int2F(i)
                      [] OTHER -> Int2F(i)]]]

EarlierDatasets ==
    {PipelineDataset(PipelineColumns, EarlierRows, s0, FALSE) :
        s0 \in [1..EarlierRows -> PipelineReadings \ {NaN}]}

InitPipeline ==
    /\ \E n \in 0..MaxPipelineRows,
          cols \in {PipelineColumns, PipelineColumns \ {"sensor_02"}},
          dead \in BOOLEAN :
          \E s0 \in [1..n -> PipelineReadings] :
             df = PipelineDataset(cols, n, s0, dead)
    /\ \E earlier \in EarlierDatasets : params = [earlier |-> earlier]
    /\ events_df = EmptyFrame
    /\ config = load_config(MissingFile)
    /\ pipeline = ReliabilityPipeline
    /\ ret = NoRet
    /\ pc = "ready"

\* preprocess on the earlier dataset
PreprocessEarlier ==
    /\ pc = "ready"
    /\ \E out \in preprocess(pipeline, params.earlier) :
          /\ ret' = out.ret
          /\ pipeline' = out.self
    /\ pc' = "fitted"
    /\ UNCHANGED <<df, events_df, params, config>>

\* preprocess on df, for the first time and once more
Preprocess ==
    /\ pc \in {"fitted", "done"}
    /\ \E out \in preprocess(pipeline, df) :
          /\ ret' = out.ret
          /\ pipeline' = out.self
    /\ pc' = IF pc = "fitted" THEN "done" ELSE "rerun"
    /\ UNCHANGED <<df, events_df, params, config>>

NextPipeline == PreprocessEarlier \/ Preprocess

SpecPipeline == InitPipeline /\ [][NextPipeline]_vars

---------------------------------------------------------------------------
(* Specification of the dashboard flow: render_anomaly_insights on a sorted *)
(* dataset, with the configuration of a missing config.toml                 *)

\* the sorted datasets of the event extractor, with one anomaly_score
\* throughout: the score takes no part in the durations
InitRender ==
    /\ \E n \in 0..MaxRows :
         \E gaps \in [2..n -> Gaps], st \in [1..n -> Statuses] :
            df = EventDataset(RowColumns, n, gaps, st, [i \in 1..n |-> 1])
    /\ events_df = EmptyFrame
    /\ params = NoParams
    /\ config = load_config(MissingFile)
    /\ pipeline = ReliabilityPipeline
    /\ ret = NoRet
    /\ pc = "ready"

NextRender == RenderAnomalyInsights

SpecRender == InitRender /\ [][NextRender]_vars

---------------------------------------------------------------------------
(* Claims about the event extractor, checked under SpecEvents *)

EventsDone == pc = "done" /\ ret.fn = "get_anomaly_events"

\* rows a..b are a maximal contiguous run of one status
IsMaximalRun(rows, a, b) ==
    /\ a <= b
    /\ \A i \in a..b : rows[i].machine_status = rows[a].machine_status
    /\ a = 1 \/ rows[a - 1].machine_status # rows[a].machine_status
    /\ b = Len(rows) \/ rows[b + 1].machine_status # rows[a].machine_status

FailureRuns(rows) ==
    {r \in (1..Len(rows)) \X (1..Len(rows)) :
        /\ IsMaximalRun(rows, r[1], r[2])
        /\ rows[r[1]].machine_status \in {"BROKEN", "RECOVERING"}}

RunKey(rows, r) ==
    <<rows[r[1]].machine_status, rows[r[1]].timestamp, rows[r[2]].timestamp>>

EventKey(e) == <<e.status, e.start_time, e.end_time>>

\* C1: get_anomaly_events emits exactly one event per maximal contiguous run
\* of BROKEN or RECOVERING rows and no other event: for every (status, first
\* timestamp, last timestamp) there are as many events as failure runs, so
\* runs separated by another status are not merged and a BROKEN run followed
\* by a RECOVERING run gives two events.
C1_OneEventPerFailureRun ==
    EventsDone =>
        LET evs == ret.value.rows
            runs == FailureRuns(df.rows)
        IN  /\ Len(evs) = Cardinality(runs)
            /\ \A r \in runs :
                  Cardinality({i \in DOMAIN evs :
                                 EventKey(evs[i]) = RunKey(df.rows, r)})
                  = Cardinality({q \in runs :
                                   RunKey(df.rows, q) = RunKey(df.rows, r)})
            /\ \A i \in DOMAIN evs :
                  \E r \in runs : EventKey(evs[i]) = RunKey(df.rows, r)

\* a dataset with two BROKEN runs separated by NORMAL rows, and a BROKEN run
\* directly followed by a RECOVERING run, extracted as separate events
C1_Witness ==
    /\ EventsDone /\ ~ret.raised
    /\ \E i, j, k \in DOMAIN df.rows :
          /\ i < j /\ j < k
          /\ df.rows[i].machine_status = "BROKEN"
          /\ df.rows[j].machine_status = "NORMAL"
          /\ df.rows[k].machine_status = "BROKEN"
    /\ \E i \in DOMAIN df.rows :
          /\ i < Len(df.rows)
          /\ df.rows[i].machine_status = "BROKEN"
          /\ df.rows[i + 1].machine_status = "RECOVERING"
    /\ Cardinality({i \in DOMAIN ret.value.rows :
                        ret.value.rows[i].status = "BROKEN"}) = 2
    /\ Len(ret.value.rows) = 3

\* C2: every emitted event has start_time and end_time equal to the
\* timestamps of the first and last row of its run, duration_mins equal to
\* (end_time - start_time) / 60 seconds (0 for a single-row run), the run's
\* status and, when the dataset has an anomaly_score column, the maximum
\* anomaly_score over exactly the rows of the run.
C2_EventFields ==
    EventsDone =>
        \A i \in DOMAIN ret.value.rows :
            LET e == ret.value.rows[i]
            IN  \E r \in FailureRuns(df.rows) :
                   LET a == r[1]
                       b == r[2]
                   IN  /\ e.start_time = df.rows[a].timestamp
                       /\ e.end_time = df.rows[b].timestamp
                       /\ e.duration_mins.k = "fin"
                       /\ e.duration_mins.n * 60
                            = (e.end_time - e.start_time) * e.duration_mins.d
                       /\ a = b => e.duration_mins = Fin(0, 1)
                       /\ e.status = df.rows[a].machine_status
                       /\ "anomaly_score" \in df.columns =>
                            /\ \E j \in a..b :
                                  df.rows[j].anomaly_score = e.max_anomaly_score
                            /\ \A j \in a..b :
                                  df.rows[j].anomaly_score <= e.max_anomaly_score

\* an event of a two-row run lasting half a minute whose peak score is the
\* larger of the run's scores while a row outside the run scores higher, next
\* to an event of a single-row run with duration 0
C2_Witness ==
    /\ EventsDone /\ ~ret.raised
    /\ "anomaly_score" \in df.columns
    /\ \E i \in DOMAIN ret.value.rows :
          /\ ret.value.rows[i].duration_mins = Fin(1, 2)
          /\ ret.value.rows[i].max_anomaly_score = 1
    /\ \E j \in DOMAIN df.rows : df.rows[j].anomaly_score = 2
    /\ \E i \in DOMAIN ret.value.rows :
          /\ ret.value.rows[i].duration_mins = Fin(0, 1)
          /\ ret.value.rows[i].start_time = ret.value.rows[i].end_time

\* C10: get_anomaly_events never raises, and returns an empty event list for
\* an empty dataset and for a dataset without BROKEN or RECOVERING rows.
C10_NeverRaises ==
    EventsDone =>
        /\ ~ret.raised
        /\ (\A i \in DOMAIN df.rows :
               df.rows[i].machine_status \notin {"BROKEN", "RECOVERING"})
             => ret.value.rows = <<>>

\* the events come out newest first
NewestFirst(evs) ==
    \A i \in DOMAIN evs :
        i < Len(evs) => evs[i].start_time >= evs[i + 1].start_time

\* each event can be given a failure run of its own with its status, first
\* and last timestamp (the events with one key are no more than the runs with
\* that key), and distinct runs have no row in common
OwnRuns(evs, rows) ==
    LET runs == FailureRuns(rows)
    IN  /\ \A r, q \in runs : r # q => (r[2] < q[1] \/ q[2] < r[1])
        /\ \A i \in DOMAIN evs :
              Cardinality({j \in DOMAIN evs : EventKey(evs[j]) = EventKey(evs[i])})
              <= Cardinality({r \in runs : RunKey(rows, r) = EventKey(evs[i])})
        /\ \A i \in DOMAIN evs : \E r \in runs : EventKey(evs[i]) = RunKey(rows, r)

StrictlyIncreasing(rows) ==
    \A i \in DOMAIN rows : i < Len(rows) => rows[i].timestamp < rows[i + 1].timestamp

\* C11 as stated: on a dataset sorted ascending by timestamp the returned
\* events are ordered by start_time descending, the closed intervals
\* [start_time, end_time] of any two distinct events do not intersect, and no
\* row belongs to two events.
C11_AsStated ==
    (EventsDone /\ ~ret.raised) =>
        LET evs == ret.value.rows
        IN  /\ NewestFirst(evs)
            /\ \A i, j \in DOMAIN evs :
                  i # j => \/ evs[i].end_time < evs[j].start_time
                           \/ evs[j].end_time < evs[i].start_time
            /\ OwnRuns(evs, df.rows)

\* C11 (amended): the returned events are ordered by start_time descending,
\* no row belongs to two events, and of any two distinct events one ends no
\* later than the other starts, so that their intervals have at most that one
\* instant in common; when the timestamps are strictly increasing the
\* intervals do not intersect at all.
C11_OrderedRowDisjoint ==
    (EventsDone /\ ~ret.raised) =>
        LET evs == ret.value.rows
        IN  /\ NewestFirst(evs)
            /\ \A i, j \in DOMAIN evs :
                  i # j => \/ evs[i].end_time <= evs[j].start_time
                           \/ evs[j].end_time <= evs[i].start_time
            /\ StrictlyIncreasing(df.rows) =>
                  \A i, j \in DOMAIN evs :
                     i # j => \/ evs[i].end_time < evs[j].start_time
                              \/ evs[j].end_time < evs[i].start_time
            /\ OwnRuns(evs, df.rows)

\* three events, newest first: two of them meet in one instant (two rows with
\* the same timestamp and different failure statuses) and a later one lies
\* strictly after both
C11_Witness ==
    /\ EventsDone /\ ~ret.raised
    /\ Len(ret.value.rows) = 3
    /\ ret.value.rows[1].start_time > ret.value.rows[2].end_time
    /\ ret.value.rows[2].start_time = ret.value.rows[3].end_time
    /\ ret.value.rows[2].status # ret.value.rows[3].status

---------------------------------------------------------------------------
(* Claims about the configuration, checked under SpecConfig *)

ConsumerDone ==
    pc = "done" /\ ret.fn \in {"render_anomaly_insights", "plot_health_timeline"}

FileUnavailable == ~params.config_file.exists \/ ~params.config_file.loads

\* the keys read at lines 161, 180, 195 and 200 of anomaly_insights.py
KeysRead ==
    {<<"business", "cost_per_minute">>, <<"etl", "anomaly_threshold_std">>,
     <<"ui", "theme_color">>, <<"ui", "chart_height">>}

\* C12: when config.toml is missing or cannot be loaded, the loaded config
\* holds every key its consumers in anomaly_insights read, no consumer raises,
\* and the lookups of render_anomaly_insights give cost_per_minute 500 and
\* anomaly_threshold_std 2.0.
C12_DefaultsWithoutFile ==
    FileUnavailable =>
        /\ pc # "import" => \A k \in KeysRead : has_key(config, k[1], k[2])
        /\ ConsumerDone =>
              /\ ~ret.raised
              /\ ret.fn = "render_anomaly_insights" =>
                    /\ ret.value.default_cost = 500
                    /\ ret.value.threshold = Fin(2, 1)

---------------------------------------------------------------------------
(* Claims about the ETL pipeline, checked under SpecPipeline *)

PreprocessDone == pc \in {"done", "rerun"} /\ ret.fn = "preprocess"

\* what a new instance returns for df
FreshResults == {out.ret : out \in preprocess(ReliabilityPipeline, df)}

LiveSensors ==
    {c \in df.columns :
        /\ \E k \in DOMAIN PipelineSensors : PipelineSensors[k] = c
        /\ \E i \in DOMAIN df.rows : ~IsNaN(df.rows[i][c])}

DeadSensors ==
    {c \in df.columns :
        /\ \E k \in DOMAIN PipelineSensors : PipelineSensors[k] = c
        /\ \A i \in DOMAIN df.rows : IsNaN(df.rows[i][c])}

Present(c, i) == ~IsNaN(df.rows[i][c])

\* the value the claim gives cell i of column c
ExpectedCell(c, i) ==
    IF Present(c, i) THEN df.rows[i][c]
    ELSE IF \E j \in 1..(i - 1) : Present(c, j)
    THEN df.rows[SetMax({j \in 1..(i - 1) : Present(c, j)})][c]
    ELSE df.rows[SetMin({j \in (i + 1)..Len(df.rows) : Present(c, j)})][c]

\* the matrix the scaler was last fitted on, as column c
ScalerColumn(c) ==
    LET k == CHOOSE k \in DOMAIN pipeline.scaler.features :
                pipeline.scaler.features[k] = c
        X == pipeline.scaler.batches[Len(pipeline.scaler.batches)]
    IN  [i \in DOMAIN X |-> X[i][k]]

\* C16: after the gap filling of preprocess every sensor column of df that
\* held a value has no missing cell (a missing cell holds the nearest value
\* before it or, without one, the first value after it; present cells are
\* unchanged), in the frame returned and in the matrix given to the scaler;
\* the sensor columns without any value are in neither.
C16_GapFilling ==
    PreprocessDone =>
        /\ ~ret.raised =>
              /\ \A c \in LiveSensors :
                    /\ c \in ret.value.columns
                    /\ \A i \in DOMAIN df.rows :
                          /\ ~IsNaN(ret.value.rows[i][c])
                          /\ ret.value.rows[i][c] = ExpectedCell(c, i)
              /\ \A c \in DeadSensors : c \notin ret.value.columns
        /\ (~ret.raised \/ ret.value = "PCA") =>
              /\ pipeline.scaler.fitted
              /\ {pipeline.scaler.features[k] :
                    k \in DOMAIN pipeline.scaler.features} = LiveSensors
              /\ \A c \in LiveSensors :
                    ScalerColumn(c) = [i \in DOMAIN df.rows |-> ExpectedCell(c, i)]

\* a dataset whose sensor_00 has a gap before its first value and a gap
\* after a value, and whose dead sensor_01 was dropped before the scaler
C16_Witness ==
    /\ pc = "done" /\ ret.fn = "preprocess" /\ ~ret.raised
    /\ Len(df.rows) = 3
    /\ IsNaN(df.rows[1].sensor_00)
    /\ ~IsNaN(df.rows[2].sensor_00)
    /\ IsNaN(df.rows[3].sensor_00)
    /\ ret.value.rows[1].sensor_00 = df.rows[2].sensor_00
    /\ ret.value.rows[3].sensor_00 = df.rows[2].sensor_00
    /\ "sensor_01" \in df.columns /\ "sensor_01" \notin ret.value.columns
    /\ pipeline.scaler.features = <<"sensor_00", "sensor_02">>

---------------------------------------------------------------------------
(* Claims about the calculators, checked under SpecCalculators *)

ReliabilityDone == pc = "done" /\ ret.fn = "calculate_reliability_metrics"
RiskDone == pc = "done" /\ ret.fn = "calculate_financial_risk"

FailureIdx(rows) ==
    {i \in DOMAIN rows : rows[i].status = "BROKEN" \/ rows[i].status = "RECOVERING"}

\* the sum of duration_mins over the rows at the positions in idx
RECURSIVE SumOver(_, _)
SumOver(rows, idx) ==
    IF idx = {} THEN Fin(0, 1)
    ELSE LET i == CHOOSE j \in idx : TRUE
         IN  FAdd(rows[i].duration_mins, SumOver(rows, idx \ {i}))

\* C3: with at least one BROKEN or RECOVERING event, n counts those events
\* only, MTBF * n = total_duration_hours - (sum of their duration_mins) / 60
\* and MTTR * n = sum of their duration_mins; one 60-minute BROKEN event over
\* 10 hours gives MTBF 9 and MTTR 60.
C3_ReliabilityFormula ==
    (ReliabilityDone /\ FailureIdx(events_df.rows) # {}) =>
        LET n == Int2F(Cardinality(FailureIdx(events_df.rows)))
            down == SumOver(events_df.rows, FailureIdx(events_df.rows))
        IN  /\ ~ret.raised
            /\ FEq(FMul(ret.value.MTBF, n),
                   FSub(params.total_duration_hours, FDiv(down, Fin(60, 1))))
            /\ FEq(FMul(ret.value.MTTR, n), down)
            /\ (/\ Len(events_df.rows) = 1
                /\ events_df.rows[1].duration_mins = Fin(60, 1)
                /\ params.total_duration_hours = Fin(10, 1))
               => /\ ret.value.MTBF = Fin(9, 1)
                  /\ ret.value.MTTR = Fin(60, 1)

\* the metrics of an event table that mixes a NORMAL event of 60 minutes with
\* two failure events of 60 and 0.5 minutes over 10 hours
C3_Witness ==
    /\ ReliabilityDone
    /\ params.total_duration_hours = Fin(10, 1)
    /\ Cardinality(FailureIdx(events_df.rows)) = 2
    /\ \E i \in DOMAIN events_df.rows :
          /\ events_df.rows[i].status = "NORMAL"
          /\ events_df.rows[i].duration_mins = Fin(60, 1)
    /\ ret.value.MTTR = Fin(121, 4)
    /\ ret.value.MTBF = Fin(1079, 240)

\* C4: with zero BROKEN or RECOVERING events (an empty table, or only events
\* of other statuses), whatever total_duration_hours, the result is
\* MTBF = +infinity and MTTR = 0 and nothing is raised.
C4_NoFailuresSentinel ==
    (ReliabilityDone /\ FailureIdx(events_df.rows) = {}) =>
        /\ ~ret.raised
        /\ ret.value.MTBF = Inf
        /\ ret.value.MTTR = Fin(0, 1)

\* the sentinel returned for a non-empty table of NORMAL events only
C4_Witness ==
    /\ ReliabilityDone
    /\ Len(events_df.rows) >= 2
    /\ \A i \in DOMAIN events_df.rows :
          /\ events_df.rows[i].status = "NORMAL"
          /\ events_df.rows[i].duration_mins = Fin(60, 1)
    /\ ret.value.MTBF = Inf

\* the table with every duration_mins doubled
Doubled(events) ==
    [events EXCEPT !.rows =
        [i \in DOMAIN events.rows |->
            [events.rows[i] EXCEPT !.duration_mins = FMul(Fin(2, 1), @)]]]

---------------------------------------------------------------------------
(* Claims about the root-cause analyzer, checked under SpecRootCause *)

RcaDone == pc = "done" /\ ret.fn = "analyze_root_cause"

NormalRows == {i \in DOMAIN df.rows : df.rows[i].machine_status = "NORMAL"}

HasWindow == "start_time" \in DOMAIN params.event_row

WindowRows ==
    {i \in DOMAIN df.rows :
        /\ params.event_row.start_time <= df.rows[i].timestamp
        /\ df.rows[i].timestamp <= params.event_row.end_time}

NonNegative(x) == IsFin(x) /\ x.n >= 0

\* C5: every returned entry has deviation_score >= 0, and no sensor whose
\* standard deviation over the NORMAL rows is 0 appears in the ranking.
C5_ScoresNonNegative ==
    RcaDone =>
        \A i \in DOMAIN ret.value.rows :
            /\ NonNegative(ret.value.rows[i].deviation_score)
            /\ ~std_is_zero(df.rows, NormalRows, ret.value.rows[i].sensor)

\* the sensors that the loop does not skip, with their scores
Scored ==
    {c \in AllSensors \cap df.columns : ~std_is_zero(df.rows, NormalRows, c)}

ScoreOf(c) ==
    deviation_score(mean(df.rows, WindowRows, c), mean(df.rows, NormalRows, c),
                    variance(df.rows, NormalRows, c))

\* C6: with a non-empty baseline and a non-empty event window the call
\* returns at most top_n entries, ordered by deviation_score descending,
\* and no sensor left out scores strictly higher than a returned one.
C6_TopNRanking ==
    (RcaDone /\ NormalRows # {} /\ HasWindow /\ WindowRows # {}) =>
        LET out == ret.value.rows
        IN  /\ ~ret.raised
            /\ Len(out) <= params.top_n
            /\ \A i, j \in DOMAIN out :
                  i < j => ~FLt(out[i].deviation_score, out[j].deviation_score)
            /\ \A i \in DOMAIN out : out[i].sensor \in Scored
            /\ \A i, j \in DOMAIN out : i # j => out[i].sensor # out[j].sensor
            /\ Len(out) = params.top_n \/ Len(out) = Cardinality(Scored)
            /\ \A c \in Scored :
                  (\A i \in DOMAIN out : out[i].sensor # c) =>
                      \A i \in DOMAIN out :
                          ~FLt(out[i].deviation_score, ScoreOf(c))

\* C7: the call returns an empty result and raises nothing when the dataset
\* is empty (whatever the event context, an empty one included), when no row
\* is NORMAL, and when no row lies in the window [start_time, end_time].
C7_EmptyResults ==
    (/\ RcaDone
     /\ \/ IsEmpty(df)
        \/ NormalRows = {}
        \/ HasWindow /\ WindowRows = {})
    => /\ ~ret.raised
       /\ ret.value.rows = <<>>

\* a dataset with a NORMAL row and sensors, analysed for a window that starts
\* after its last row
C7_Witness ==
    /\ RcaDone
    /\ NormalRows # {}
    /\ AllSensors \subseteq df.columns
    /\ HasWindow /\ WindowRows = {}
    /\ params.event_row.start_time > df.rows[Len(df.rows)].timestamp
    /\ ret.kind = "list"

\* C14: when some row is NORMAL and some row lies in the event window but
\* every sensor is excluded from the ranking (the dataset has no sensor
\* column, or each sensor's standard deviation over the NORMAL rows is 0),
\* the call does not raise and returns an empty ranking.
C14_AllSensorsExcluded ==
    (/\ RcaDone /\ NormalRows # {} /\ HasWindow /\ WindowRows # {}
     /\ \A c \in AllSensors \cap df.columns : std_is_zero(df.rows, NormalRows, c))
    => /\ ~ret.raised
       /\ ret.value.rows = <<>>

---------------------------------------------------------------------------
(* Claims about the data quality monitor, checked under SpecHealth *)

HealthDone == pc = "done" /\ ret.fn = "check_sensor_health"

\* the trailing window: the last min(lookback_window, number of rows) rows
TrailingWindow ==
    {i \in DOMAIN df.rows : i > Len(df.rows) - params.lookback_window}

Missing(c) == {i \in TrailingWindow : df.rows[i][c] = NaN}

\* the standard deviation of the window is exactly 0: at least two values
\* are present and all present values are equal
Flat(c) ==
    LET seen == {df.rows[i][c] : i \in TrailingWindow} \ {NaN}
    IN  /\ Cardinality(TrailingWindow \ Missing(c)) >= 2
        /\ Cardinality(seen) = 1

\* C8: every sensor column gets one report row whose status is CRITICAL with
\* the flatline (Zero Variance) detail if the standard deviation of the
\* trailing window is exactly 0, whatever the missing fraction; otherwise
\* WARNING if more than 10% of the window is missing; otherwise HEALTHY.
C8_HealthStatus ==
    (HealthDone /\ ~IsEmpty(df)) =>
        /\ ~ret.raised
        /\ Len(ret.value.rows) = Cardinality(AllSensors \cap df.columns)
        /\ \A c \in AllSensors \cap df.columns :
              \E k \in DOMAIN ret.value.rows : ret.value.rows[k].sensor = c
        /\ \A k \in DOMAIN ret.value.rows :
              LET r == ret.value.rows[k]
                  c == r.sensor
              IN  IF Flat(c)
                  THEN /\ r.status = "CRITICAL"
                       /\ r.details = "Flatline (Zero Variance)"
                  ELSE IF 10 * Cardinality(Missing(c)) > Cardinality(TrailingWindow)
                  THEN r.status = "WARNING"
                  ELSE r.status = "HEALTHY"

\* a window in which sensor_00 is constant and mostly missing is CRITICAL,
\* while the ramp sensor_01 of the same frame is HEALTHY
C8_Witness ==
    /\ HealthDone
    /\ Cardinality(TrailingWindow) = 5
    /\ Flat("sensor_00")
    /\ Cardinality(Missing("sensor_00")) = 3
    /\ \E k \in DOMAIN ret.value.rows :
          /\ ret.value.rows[k].sensor = "sensor_00"
          /\ ret.value.rows[k].status = "CRITICAL"
    /\ \E k \in DOMAIN ret.value.rows :
          /\ ret.value.rows[k].sensor = "sensor_01"
          /\ ret.value.rows[k].status = "HEALTHY"

\* the rows before the trailing window
OlderRows == DOMAIN df.rows \ TrailingWindow

\* df with the cell of column c in row i replaced by v
WithCell(i, c, v) == [df EXCEPT !.rows[i][c] = v]

StatusOf(report, c) ==
    {report.rows[k].status : k \in {k \in DOMAIN report.rows : report.rows[k].sensor = c}}

\* C15: the report depends on the rows before the trailing window (the last
\* min(lookback_window, number of rows) rows) in no way: replacing any cell
\* of such a row by any reading leaves every sensor's status as reported;
\* and every reported current_value is the sensor's cell in the last row.
C15_TrailingWindowOnly ==
    (HealthDone /\ ~IsEmpty(df)) =>
        /\ \A i \in OlderRows, c \in AllSensors, v \in HealthReadings :
              LET other == check_sensor_health(WithCell(i, c, v),
                                               params.lookback_window).value
              IN  \A s \in AllSensors :
                     StatusOf(other, s) = StatusOf(ret.value, s)
        /\ \A k \in DOMAIN ret.value.rows :
              ret.value.rows[k].current_value
                 = df.rows[Len(df.rows)][ret.value.rows[k].sensor]

\* a dataset longer than the window whose sensor_00 is flat inside the
\* window (CRITICAL) and holds another reading before it
C15_Witness ==
    /\ HealthDone
    /\ Cardinality(OlderRows) = 2
    /\ Flat("sensor_00")
    /\ \E i \in OlderRows, j \in TrailingWindow :
          /\ df.rows[i].sensor_00 # NaN
          /\ df.rows[j].sensor_00 # NaN
          /\ df.rows[i].sensor_00 # df.rows[j].sensor_00
    /\ StatusOf(ret.value, "sensor_00") = {"CRITICAL"}
    /\ ret.value.rows[1].current_value = df.rows[Len(df.rows)].sensor_00

---------------------------------------------------------------------------
(* Claims about the dashboard flow, checked under SpecRender *)

RenderDone == pc = "done" /\ ret.fn = "render_anomaly_insights"

\* the minutes between the first and the last row of the sorted dataset
SpanMinutes == Fin(df.rows[Len(df.rows)].timestamp - df.rows[1].timestamp, 60)

\* C17: when render_anomaly_insights computes its KPI values for a dataset
\* sorted ascending by timestamp, the durations of the extracted events sum
\* to no more than the span between the first and the last timestamp, and
\* the MTBF is infinite or a number that is not negative.
C17_MtbfNotNegative ==
    (RenderDone /\ ret.kind = "KPI") =>
        LET kpi == ret.value
        IN  /\ ~FLt(SpanMinutes, duration_sum(kpi.events_df.rows))
            /\ FMul(kpi.total_duration_hours, Fin(60, 1)) = SpanMinutes
            /\ \/ kpi.reliability.MTBF = Inf
               \/ NonNegative(kpi.reliability.MTBF)

\* two events that together last less than the dataset, which also has a
\* NORMAL row: the MTBF is a positive number
C17_Witness ==
    /\ RenderDone /\ ret.kind = "KPI"
    /\ Len(ret.value.events_df.rows) = 2
    /\ FLt(Fin(0, 1), duration_sum(ret.value.events_df.rows))
    /\ FLt(duration_sum(ret.value.events_df.rows), SpanMinutes)
    /\ FLt(Fin(0, 1), ret.value.reliability.MTBF)
    /\ IsFin(ret.value.reliability.MTBF)

===========================================================================
